---- MODULE Spec2Model ----
(***************************************************************************)
(* The OCR agent: the run of extract_text_from_image (src/main.py), its     *)
(* tool-calling conversation, the tool extract_text (src/agent/tools.py)   *)
(* and preprocess_image (src/additions/additions_1_opencv.py).             *)
(*                                                                         *)
(* process_with_tools builds a two-node graph: "assistant" (the driver     *)
(* call) and "tools" (ToolNode over [extract_text]), with the conditional  *)
(* edge tools_condition after "assistant" and a fixed edge from "tools"    *)
(* back to "assistant".  The graph is invoked without a config, so the     *)
(* run is bounded by the graph library's default recursion limit of 25     *)
(* supersteps (one superstep per node execution).                          *)
(***************************************************************************)
EXTENDS Integers, Sequences, FiniteSets, TLC

VARIABLES
    provider,     \* the provider the driver was built for (get_llm_with_tools)
    input_file,   \* AgentState["input_file"]
    messages,     \* AgentState["messages"]
    node,         \* where the run is: start, assistant, tools, end, done, raised
    err,          \* the exception that left react_graph.invoke, or "none"
    step,         \* supersteps executed so far
    inflight,     \* the tool calls of the running tools node, one record each
    output,       \* the text process_with_tools echoes as the result
    thinkCount,   \* driver invocations so far (Thinking visits)
    actCount,     \* tools-node executions so far (Acting visits)
    driverLog,    \* the responses the driver returned, in order
    lastInput,    \* the message list handed to the driver on its latest call
    deviations,   \* non-nominal events so far (see MaxDeviations)
    \* extract_text_from_image
    pc,             \* where the run is
    image_input,    \* the image argument: a local path or a URL
    providerArg,    \* the provider argument as typed
    model,          \* the model argument, NoModel when not given
    image_path,     \* the local path that is processed
    temp_file_path, \* the downloaded file, "" when there is none
    exc,            \* the exception in flight, "none" when there is none
    exitCode,       \* the exit code of the run, NotExited while it runs
    hfCalls,        \* local-model generations so far
    fs,             \* the files that exist, by their real location
    created,        \* the temporary files the run has created
    \* preprocess_image
    pre,            \* one record per call: its arguments, image and result
    pngs            \* the files written by preprocess_image: path and image

convVars == <<provider, input_file, messages, node, err, step, inflight, output,
              thinkCount, actCount, driverLog, lastInput, deviations>>

runVars == <<pc, image_input, providerArg, model, image_path, temp_file_path,
             exc, exitCode, hfCalls, fs, created>>

preVars == <<pre, pngs>>

\* What the steps of the conversation leave alone.
outside == <<runVars, preVars>>

vars == <<convVars, runVars, preVars>>

----------------------------------------------------------------------------
(* Bounds and constants *)

\* At most this many non-nominal events in one conversation: a driver
\* response naming an unknown tool or holding several tool calls, an image
\* that cannot be read, and a vision-model call that fails or returns
\* blank text.
MaxDeviations == 2

\* react_graph.invoke(...) is given no config: the graph library's default
\* recursion_limit applies, 25 supersteps.
RecursionLimit == 25

Providers == {"openai", "ollama"}

\* tools = [extract_text]
tools == {"extract_text"}

UnknownTool == "read_pdf"

ImagePath == "img.png"
Prompt == "Please transcribe the provided image."

FinalContents == {"The image says Hello", ""}
VisionContents == {"Hello", " Hello\n", "  "}

NoCallId == <<0, 0>>
NoOutput == "<nothing echoed>"

----------------------------------------------------------------------------
(* Messages *)

HumanMessage(id, content) ==
    [id |-> id, role |-> "human", content |-> content,
     tool_calls |-> <<>>, tool_call_id |-> NoCallId]

\* f"...with provided tools:\n{tool_description}\n\nCurrently loaded image: {image}"
SysContent(image) ==
    CASE image = ImagePath ->
           "tools: def extract_text(img_path: str) -> str; Currently loaded image: img.png"
      [] OTHER ->
           "tools: def extract_text(img_path: str) -> str; Currently loaded image: ?"

SystemMessage(image) ==
    [id |-> 0, role |-> "system", content |-> SysContent(image),
     tool_calls |-> <<>>, tool_call_id |-> NoCallId]

AIMessage(id, content, calls) ==
    [id |-> id, role |-> "ai", content |-> content,
     tool_calls |-> [k \in 1..Len(calls) |->
                        [name |-> calls[k].name, img_path |-> calls[k].img_path,
                         id |-> <<id, k>>]],
     tool_call_id |-> NoCallId]

ToolMessage(id, content, call_id) ==
    [id |-> id, role |-> "tool", content |-> content,
     tool_calls |-> <<>>, tool_call_id |-> call_id]

\* A message without an id gets a fresh one; a driver response carries
\* its own run id.  Both are new in the conversation.
FreshId(msgs) == Len(msgs) + 1

\* The update replaces the list (a state key without a reducer).
AddMessagesOverwrite(left, right) == right

RECURSIVE add_messages(_, _)
\* The reducer of AgentState["messages"]: a new message whose id is already
\* in the list replaces that message in place, any other is appended.
add_messages(left, right) ==
    IF right = <<>> THEN left
    ELSE LET m == Head(right)
             hit == {i \in 1..Len(left) : left[i].id = m.id}
         IN  IF hit = {}
             THEN add_messages(Append(left, m), Tail(right))
             ELSE add_messages([i \in 1..Len(left) |->
                                  IF i \in hit THEN m ELSE left[i]],
                               Tail(right))

ToolsConditionAlwaysEnd(msgs) == "end"

\* tools_condition: the route taken after the assistant node.
tools_condition(msgs) ==
    IF msgs[Len(msgs)].role = "ai" /\ msgs[Len(msgs)].tool_calls # <<>>
    THEN "tools" ELSE "end"

NodeAfterToolsEnd == "end"

\* builder.add_edge("tools", "assistant")
NodeAfterTools == "assistant"

\* The next node, or the recursion error when the superstep budget is spent
\* and the graph has not reached its end.
Route(next, steps) ==
    IF next = "end" THEN [node |-> "end", err |-> "none"]
    ELSE IF steps >= RecursionLimit
         THEN [node |-> "raised", err |-> "GraphRecursionError"]
         ELSE [node |-> next, err |-> "none"]

\* A driver input that holds the latest message only.
DriverInputLastOnly(image, msgs) == <<SystemMessage(image), msgs[Len(msgs)]>>

\* llm_with_tools.invoke([sys_msg] + state["messages"])
DriverInput(image, msgs) == <<SystemMessage(image)>> \o msgs

\* An assistant step that returns no image path.
InputFileCleared(image) == ""

\* return {"messages": [response], "input_file": state["input_file"]}
InputFileUpdate(image) == image

----------------------------------------------------------------------------
(* The driver: what llm_with_tools.invoke may return *)

ExtractCall(path) == [name |-> "extract_text", img_path |-> path]
OtherCall == [name |-> UnknownTool, img_path |-> ImagePath]

NominalResponse == [content |-> "", calls |-> <<ExtractCall(ImagePath)>>]

FinalResponses == {[content |-> c, calls |-> <<>>] : c \in FinalContents}

\* get_llm_with_tools: bind_tools(tools, parallel_tool_calls=False) for
\* openai, bind_tools(tools) for ollama.
ParallelToolCalls(p) == p # "openai"

DeviantResponses(p) ==
    {[content |-> "", calls |-> <<OtherCall>>]}
    \cup (IF ParallelToolCalls(p)
          THEN {[content |-> "",
                 calls |-> <<ExtractCall(ImagePath), ExtractCall(ImagePath)>>]}
          ELSE {})

----------------------------------------------------------------------------
(* extract_text *)

\* The model of the line that is commented out: ChatOpenAI(model="gpt-4o").
vision_llm_openai == "gpt-4o"

\* vision_llm = ChatOllama(model = "qwen2.5vl"), made when the module is
\* imported.
vision_llm == "qwen2.5vl"

\* all_text += response.content + "\n\n"; return all_text.strip()
Strip(s) ==
    CASE s = " Hello\n" -> "Hello"
      [] s = "  "       -> ""
      [] OTHER          -> s

\* One call of a tool by the tools node.  ToolNode(tools) is built with its
\* defaults: a call naming no registered tool runs nothing and is answered
\* by an error text as its tool message.
Launch(call) ==
    IF call.name \in tools
    THEN [call |-> call, pc |-> "read", executed |-> TRUE, invocations |-> 0,
          vision |-> "none", failed |-> "none", raised |-> FALSE, result |-> ""]
    ELSE [call |-> call, pc |-> "done", executed |-> FALSE, invocations |-> 0,
          vision |-> "none", failed |-> "none", raised |-> FALSE,
          result |-> "Error: not a valid tool"]

\* A handler that catches only the file errors (except OSError).
ExceptHandlerOSErrorOnly(c, kind) ==
    IF kind = "io"
    THEN [c EXCEPT !.pc = "done", !.failed = kind, !.raised = FALSE, !.result = ""]
    ELSE [c EXCEPT !.pc = "done", !.failed = kind, !.raised = TRUE,
                   !.result = "Error: tool raised"]

\* except Exception as e: print(error_msg); return ""
ExceptHandler(c, kind) ==
    [c EXCEPT !.pc = "done", !.failed = kind, !.raised = FALSE, !.result = ""]

\* return all_text.strip()
ReturnText(c, content) ==
    [c EXCEPT !.pc = "done", !.result = Strip(content)]

InFlight == {i \in 1..Len(inflight) : inflight[i].pc # "done"}

----------------------------------------------------------------------------
(* The run of extract_text_from_image: arguments, paths and files *)

DEFAULT_MODELS ==
    [openai |-> "gpt-4o", ollama |-> "llava:7b",
     huggingface |-> "HuggingFaceTB/SmolVLM-Instruct"]

VALID_IMAGE_EXTENSIONS ==
    {".jpg", ".jpeg", ".png", ".gif", ".bmp", ".tiff", ".webp"}

DOWNLOAD_TIMEOUT == 30

NoModel == ""
NotExited == -1

ProviderArgs == {"openai", "OpenAI", "ollama", "huggingface", "HuggingFace", "azure"}
ModelArgs == {NoModel, "custom-model"}

UrlInput == "https://example.com/doc.png"
ImageInputs == {UrlInput, ImagePath, "nofile.png", "notes.txt", "/tmp/user.png"}

\* tempfile.mkstemp(suffix=ext, prefix='ocr_image_')
TempFile == "/tmp/ocr_image_0.png"

\* str.lower()
Lower(s) ==
    CASE s = "OpenAI"      -> "openai"
      [] s = "HuggingFace" -> "huggingface"
      [] OTHER             -> s

\* urllib.parse.urlparse
UrlParse(s) ==
    CASE s = UrlInput -> [scheme |-> "https", netloc |-> "example.com"]
      [] OTHER        -> [scheme |-> "", netloc |-> ""]

\* is_url: all([result.scheme, result.netloc])
is_url(s) == UrlParse(s).scheme # "" /\ UrlParse(s).netloc # ""

\* Path(s).suffix.lower()
Suffix(s) ==
    CASE s = "notes.txt"   -> ".txt"
      [] s = "/etc/passwd" -> ""
      [] OTHER             -> ".png"

\* Path(s): the components of a path, "/" first when it is absolute.
\* pathlib keeps ".." components as they are written.
Parts(s) ==
    CASE s = ""                          -> <<>>
      [] s = "img.png"                   -> <<"img.png">>
      [] s = "nofile.png"                -> <<"nofile.png">>
      [] s = "notes.txt"                 -> <<"notes.txt">>
      [] s = "tmp/a.png"                 -> <<"tmp", "a.png">>
      [] s = "/tmp/user.png"             -> <<"/", "tmp", "user.png">>
      [] s = "/tmp/a.png"                -> <<"/", "tmp", "a.png">>
      [] s = "/tmp/sub/b.png"            -> <<"/", "tmp", "sub", "b.png">>
      [] s = "/tmp/ocr_image_0.png"      -> <<"/", "tmp", "ocr_image_0.png">>
      [] s = "/etc/passwd"               -> <<"/", "etc", "passwd">>
      [] s = "/home/u/img.png"           -> <<"/", "home", "u", "img.png">>
      [] s = "/home/u/tmp/a.png"         -> <<"/", "home", "u", "tmp", "a.png">>
      [] s = "/var/data/scan.png"        -> <<"/", "var", "data", "scan.png">>
      [] s = "/tmp/../etc/passwd"        -> <<"/", "tmp", "..", "etc", "passwd">>
      [] s = "/tmp/../home/u/img.png"    -> <<"/", "tmp", "..", "home", "u", "img.png">>
      [] s = "/tmp/sub/../../var/data/scan.png"
                                         -> <<"/", "tmp", "sub", "..", "..", "var", "data", "scan.png">>
      [] s = "/tmp/sub/../a.png"         -> <<"/", "tmp", "sub", "..", "a.png">>

\* The working directory of the process.
Cwd == <<"/", "home", "u">>

\* Path(tempfile.gettempdir())
TempDir == <<"/", "tmp">>

\* Path.parents: the proper prefixes of the path as written.
Parents(path) == {SubSeq(path, 1, k) : k \in 1..(Len(path) - 1)}

RECURSIVE Collapse(_, _)
\* The file system's reading of a path: ".." steps to the parent.
Collapse(acc, rest) ==
    IF rest = <<>> THEN acc
    ELSE IF Head(rest) = ".."
         THEN Collapse(IF Len(acc) > 1 THEN SubSeq(acc, 1, Len(acc) - 1) ELSE acc,
                       Tail(rest))
         ELSE Collapse(Append(acc, Head(rest)), Tail(rest))

\* Where the file named by a path really is.
RealPath(path) ==
    IF path # <<>> /\ Head(path) = "/"
    THEN Collapse(<<"/">>, Tail(path))
    ELSE Collapse(Cwd, path)

\* Path.exists()
Exists(files, path) == RealPath(path) \in files

\* Path.unlink()
Unlink(files, path) == files \ {RealPath(path)}

\* A cleanup that deletes nothing.
CleanupSkipped(files, file_path) == files

\* cleanup_temp_file:
\*   if file_path and path.exists() and temp_dir in path.parents: path.unlink()
cleanup_temp_file(files, file_path) ==
    LET path == Parts(file_path)
    IN  IF file_path # "" /\ Exists(files, path) /\ TempDir \in Parents(path)
        THEN Unlink(files, path)
        ELSE files

\* The files of the user before the run.
UserFiles ==
    {RealPath(Parts("img.png")), RealPath(Parts("notes.txt")),
     RealPath(Parts("/tmp/user.png"))}

\* A failed write that leaves the file where it is.
WriteFailedKeepsFile(files, temp_path) == files

\* download_image_from_url:
\*   except Exception: Path(temp_path).unlink(missing_ok=True); raise
WriteFailed(files, temp_path) == Unlink(files, Parts(temp_path))

\* A test of the provider that takes the argument as it is typed.
IsHuggingFaceExact(p) == p = "huggingface"

\* if provider.lower() == "huggingface"
IsHuggingFace(p) == Lower(p) = "huggingface"

\* The except clause swallows the exception.
HandledSwallowed(e) == "none"

\* except Exception as e: handle_processing_error(e, provider); raise typer.Exit(1)
HandledAs(e) == "typer.Exit(1)"

ExitCodeAlwaysZero(e) == 0

\* The exit code of the command: 0 when the function returns.
ExitCodeOf(e) == IF e = "none" THEN 0 ELSE 1

\* The timeout a blocking external call is made with, 0 when it has none:
\* urlopen(req, timeout=DOWNLOAD_TIMEOUT); llm_with_tools.invoke(...),
\* vision_llm.invoke(message) and vision_model.generate(...) are given none.
TimeoutOf(call) == IF call = "download" THEN DOWNLOAD_TIMEOUT ELSE 0

\* The blocking external calls the program is waiting in.
PendingCalls ==
    (IF pc = "download" THEN {"download"} ELSE {})
    \cup (IF pc = "hf" THEN {"inference"} ELSE {})
    \cup (IF node = "assistant" THEN {"driver"} ELSE {})
    \cup (IF \E i \in 1..Len(inflight) : inflight[i].pc = "invoke"
          THEN {"vision"} ELSE {})

\* The values of the run's variables while only the conversation is looked at.
RunIdle ==
    /\ pc = "loop"
    /\ image_input = ImagePath
    /\ providerArg = provider
    /\ model = DEFAULT_MODELS[provider]
    /\ image_path = ImagePath
    /\ temp_file_path = ""
    /\ exc = "none"
    /\ exitCode = NotExited
    /\ hfCalls = 0
    /\ fs = UserFiles
    /\ created = {}

\* No call of preprocess_image.
PreIdle ==
    /\ pre = <<>>
    /\ pngs = {}

----------------------------------------------------------------------------
(* Actions *)

Init ==
    /\ provider \in Providers
    /\ input_file = ImagePath
    /\ messages = <<>>
    /\ node = "start"
    /\ err = "none"
    /\ step = 0
    /\ inflight = <<>>
    /\ output = NoOutput
    /\ thinkCount = 0
    /\ actCount = 0
    /\ driverLog = <<>>
    /\ lastInput = <<>>
    /\ deviations = 0
    /\ RunIdle
    /\ PreIdle

\* process_with_tools: create the graph and seed the state.
Start ==
    /\ node = "start"
    /\ messages' = add_messages(<<>>, <<HumanMessage(FreshId(<<>>), Prompt)>>)
    /\ node' = "assistant"
    /\ UNCHANGED <<outside, provider, input_file, err, step, inflight, output,
                   thinkCount, actCount, driverLog, lastInput, deviations>>

\* assistant, followed by tools_condition.
Assistant(response, cost) ==
    /\ node = "assistant"
    /\ deviations + cost <= MaxDeviations
    /\ LET msg == AIMessage(FreshId(messages), response.content, response.calls)
           r == Route(tools_condition(add_messages(messages, <<msg>>)), step + 1)
       IN  /\ lastInput' = DriverInput(input_file, messages)
           /\ messages' = add_messages(messages, <<msg>>)
           /\ driverLog' = Append(driverLog, msg)
           /\ node' = r.node
           /\ err' = r.err
    /\ step' = step + 1
    /\ thinkCount' = thinkCount + 1
    /\ deviations' = deviations + cost
    /\ input_file' = InputFileUpdate(input_file)
    /\ UNCHANGED <<outside, provider, inflight, output, actCount>>

\* llm_with_tools.invoke raises: the exception leaves react_graph.invoke.
AssistantFail ==
    /\ node = "assistant"
    /\ lastInput' = DriverInput(input_file, messages)
    /\ thinkCount' = thinkCount + 1
    /\ node' = "raised"
    /\ err' = "DriverError"
    /\ UNCHANGED <<outside, provider, input_file, messages, step, inflight, output,
                   actCount, driverLog, deviations>>

\* The tools node starts: the tool calls of the last message are handed to
\* the node's executor together, one worker per call.
ToolsStart ==
    /\ node = "tools"
    /\ inflight = <<>>
    /\ LET calls == messages[Len(messages)].tool_calls
       IN  inflight' = [k \in 1..Len(calls) |-> Launch(calls[k])]
    /\ actCount' = actCount + 1
    /\ UNCHANGED <<outside, provider, input_file, messages, node, err, step, output,
                   thinkCount, driverLog, lastInput, deviations>>

\* extract_text: open, read and encode the image; any of them may raise.
ExtractRead(i) ==
    /\ i \in 1..Len(inflight)
    /\ inflight[i].pc = "read"
    /\ \/ /\ inflight' = [inflight EXCEPT ![i].pc = "invoke"]
          /\ UNCHANGED deviations
       \/ /\ deviations < MaxDeviations
          /\ deviations' = deviations + 1
          /\ inflight' = [inflight EXCEPT ![i] = ExceptHandler(@, "io")]
    /\ UNCHANGED <<outside, provider, input_file, messages, node, err, step, output,
                   thinkCount, actCount, driverLog, lastInput>>

\* extract_text with a second attempt after a failed invocation.
ExtractInvokeRetry(i) ==
    /\ i \in 1..Len(inflight)
    /\ inflight[i].pc = "invoke"
    /\ \/ /\ \E content \in VisionContents :
               /\ Strip(content) = "" => deviations < MaxDeviations
               /\ deviations' = deviations + (IF Strip(content) = "" THEN 1 ELSE 0)
               /\ inflight' = [inflight EXCEPT ![i] =
                      ReturnText([@ EXCEPT !.invocations = @ + 1,
                                           !.vision = vision_llm], content)]
       \/ /\ deviations < MaxDeviations
          /\ deviations' = deviations + 1
          /\ inflight' = [inflight EXCEPT ![i] =
                 ExceptHandler([@ EXCEPT !.invocations = @ + 2,
                                         !.vision = vision_llm], "model")]
    /\ UNCHANGED <<outside, provider, input_file, messages, node, err, step, output,
                   thinkCount, actCount, driverLog, lastInput>>

\* extract_text: vision_llm.invoke(message) and the return.
ExtractInvoke(i) ==
    /\ i \in 1..Len(inflight)
    /\ inflight[i].pc = "invoke"
    /\ \/ /\ \E content \in VisionContents :
               /\ Strip(content) = "" => deviations < MaxDeviations
               /\ deviations' = deviations + (IF Strip(content) = "" THEN 1 ELSE 0)
               /\ inflight' = [inflight EXCEPT ![i] =
                      ReturnText([@ EXCEPT !.invocations = @ + 1,
                                           !.vision = vision_llm], content)]
       \/ /\ deviations < MaxDeviations
          /\ deviations' = deviations + 1
          /\ inflight' = [inflight EXCEPT ![i] =
                 ExceptHandler([@ EXCEPT !.invocations = @ + 1,
                                         !.vision = vision_llm], "model")]
    /\ UNCHANGED <<outside, provider, input_file, messages, node, err, step, output,
                   thinkCount, actCount, driverLog, lastInput>>

\* A tools node that answers the first request only.
ToolMessagesFirstOnly(calls, k, firstId) ==
    IF calls = <<>> THEN <<>>
    ELSE <<ToolMessage(firstId, calls[1].result, calls[1].call.id)>>

RECURSIVE ToolMessages(_, _, _)
\* The tool messages of the finished calls, in the order of the requests.
ToolMessages(calls, k, firstId) ==
    IF k > Len(calls) THEN <<>>
    ELSE <<ToolMessage(firstId + k - 1, calls[k].result, calls[k].call.id)>>
         \o ToolMessages(calls, k + 1, firstId)

\* The tools node ends: every call has finished, the results are appended
\* and the edge to the assistant is taken.
ToolsJoin ==
    /\ node = "tools"
    /\ inflight # <<>>
    /\ InFlight = {}
    /\ messages' = add_messages(messages,
                                ToolMessages(inflight, 1, FreshId(messages)))
    /\ inflight' = <<>>
    /\ step' = step + 1
    /\ LET r == Route(NodeAfterTools, step + 1)
       IN  node' = r.node /\ err' = r.err
    /\ UNCHANGED <<outside, provider, input_file, output, thinkCount, actCount,
                   driverLog, lastInput, deviations>>

FirstMessage(msgs) == msgs[1]

\* final_message = result["messages"][-1]
FinalMessage(msgs) == msgs[Len(msgs)]

\* process_with_tools: echo the content of the last message.
Display ==
    /\ node = "end"
    /\ output' = FinalMessage(messages).content
    /\ node' = "done"
    /\ UNCHANGED <<outside, provider, input_file, messages, err, step, inflight,
                   thinkCount, actCount, driverLog, lastInput, deviations>>

Next ==
    \/ Start
    \/ Assistant(NominalResponse, 0)
    \/ \E r \in FinalResponses : Assistant(r, 0)
    \/ \E r \in DeviantResponses(provider) : Assistant(r, 1)
    \/ AssistantFail
    \/ ToolsStart
    \/ \E i \in 1..2 : ExtractRead(i)
    \/ \E i \in 1..2 : ExtractInvoke(i)
    \/ ToolsJoin
    \/ Display

Spec == Init /\ [][Next]_vars

----------------------------------------------------------------------------
(* extract_text_from_image *)

\* The state at the call of extract_text_from_image.  The conversation of
\* a whole run is followed without non-nominal events (deviations starts
\* at its bound); Spec explores those.
RunInit ==
    /\ pc = "begin"
    /\ image_input \in ImageInputs
    /\ providerArg \in ProviderArgs
    /\ model \in ModelArgs
    /\ image_path = ""
    /\ temp_file_path = ""
    /\ exc = "none"
    /\ exitCode = NotExited
    /\ hfCalls = 0
    /\ fs = UserFiles
    /\ created = {}
    /\ provider = "unset"
    /\ input_file = ""
    /\ messages = <<>>
    /\ node = "idle"
    /\ err = "none"
    /\ step = 0
    /\ inflight = <<>>
    /\ output = NoOutput
    /\ thinkCount = 0
    /\ actCount = 0
    /\ driverLog = <<>>
    /\ lastInput = <<>>
    /\ deviations = MaxDeviations
    /\ PreIdle

\* A run that takes the local file for its temporary file.
HandleInputMarksTemp ==
    /\ pc = "begin"
    /\ IF is_url(image_input)
       THEN /\ pc' = "download"
            /\ UNCHANGED <<image_path, temp_file_path, exc>>
       ELSE /\ image_path' = image_input
            /\ temp_file_path' = image_input
            /\ IF ~Exists(fs, Parts(image_input))
               THEN pc' = "except" /\ exc' = "typer.Exit(1)"
               ELSE IF Suffix(image_input) \notin VALID_IMAGE_EXTENSIONS
                    THEN \/ pc' = "model" /\ UNCHANGED exc
                         \/ pc' = "except" /\ exc' = "typer.Exit(1)"
                    ELSE pc' = "model" /\ UNCHANGED exc
    /\ UNCHANGED <<convVars, preVars, image_input, providerArg, model,
                   exitCode, hfCalls, fs, created>>

\* if is_url(image_input): ... else: image_path = image_input;
\* validate_image_file(image_path)
HandleInput ==
    /\ pc = "begin"
    /\ IF is_url(image_input)
       THEN /\ pc' = "download"
            /\ UNCHANGED <<image_path, exc>>
       ELSE /\ image_path' = image_input
            /\ IF ~Exists(fs, Parts(image_input))
               THEN pc' = "except" /\ exc' = "typer.Exit(1)"
               ELSE IF Suffix(image_input) \notin VALID_IMAGE_EXTENSIONS
                    THEN \/ pc' = "model" /\ UNCHANGED exc
                         \/ pc' = "except" /\ exc' = "typer.Exit(1)"
                    ELSE pc' = "model" /\ UNCHANGED exc
    /\ UNCHANGED <<convVars, preVars, image_input, providerArg, model,
                   temp_file_path, exitCode, hfCalls, fs, created>>

\* temp_file_path = download_image_from_url(image_input)
Download ==
    /\ pc = "download"
    /\ LET tmp == RealPath(Parts(TempFile))
       IN  \/ \* urlopen raises or times out
              /\ pc' = "except" /\ exc' = "Exception"
              /\ UNCHANGED <<fs, created, temp_file_path, image_path>>
           \/ \* the file is made, writing it raises, the file is unlinked
              /\ pc' = "except" /\ exc' = "Exception"
              /\ created' = created \cup {tmp}
              /\ fs' = WriteFailed(fs \cup {tmp}, TempFile)
              /\ UNCHANGED <<temp_file_path, image_path>>
           \/ /\ pc' = "model"
              /\ created' = created \cup {tmp}
              /\ fs' = fs \cup {tmp}
              /\ temp_file_path' = TempFile
              /\ image_path' = TempFile
              /\ UNCHANGED exc
    /\ UNCHANGED <<convVars, preVars, image_input, providerArg, model,
                   exitCode, hfCalls>>

\* if model is None: model = get_default_model(provider)
SelectModel ==
    /\ pc = "model"
    /\ IF model # NoModel
       THEN pc' = "dispatch" /\ UNCHANGED <<model, exc>>
       ELSE IF Lower(providerArg) \in DOMAIN DEFAULT_MODELS
            THEN /\ model' = DEFAULT_MODELS[Lower(providerArg)]
                 /\ pc' = "dispatch"
                 /\ UNCHANGED exc
            ELSE /\ pc' = "except"
                 /\ exc' = "typer.Exit(1)"
                 /\ UNCHANGED model
    /\ UNCHANGED <<convVars, preVars, image_input, providerArg, image_path,
                   temp_file_path, exitCode, hfCalls, fs, created>>

\* if provider.lower() == "huggingface": ... else: get_llm_with_tools(...)
\* and the call of process_with_tools
Dispatch ==
    /\ pc = "dispatch"
    /\ IF IsHuggingFace(providerArg)
       THEN /\ pc' = "hf"
            /\ UNCHANGED <<exc, provider, input_file, node>>
       ELSE IF Lower(providerArg) \in Providers
            THEN /\ pc' = "loop"
                 /\ provider' = Lower(providerArg)
                 /\ input_file' = image_path
                 /\ node' = "start"
                 /\ UNCHANGED exc
            ELSE /\ pc' = "except"
                 /\ exc' = "ValueError"
                 /\ UNCHANGED <<provider, input_file, node>>
    /\ UNCHANGED <<messages, err, step, inflight, output, thinkCount, actCount,
                   driverLog, lastInput, deviations, preVars, image_input,
                   providerArg, model, image_path, temp_file_path, exitCode,
                   hfCalls, fs, created>>

\* process_huggingface_model
HuggingFace ==
    /\ pc = "hf"
    /\ \/ \* loading the model or the image raises
          /\ pc' = "except" /\ exc' = "Exception"
          /\ UNCHANGED <<hfCalls, output>>
       \/ \* vision_model.generate raises
          /\ pc' = "except" /\ exc' = "Exception"
          /\ hfCalls' = hfCalls + 1
          /\ UNCHANGED output
       \/ /\ pc' = "finally"
          /\ hfCalls' = hfCalls + 1
          /\ output' = "generated text"
          /\ UNCHANGED exc
    /\ UNCHANGED <<provider, input_file, messages, node, err, step, inflight,
                   thinkCount, actCount, driverLog, lastInput, deviations,
                   preVars, image_input, providerArg, model, image_path,
                   temp_file_path, exitCode, fs, created>>

\* process_with_tools returns, or the exception of react_graph.invoke
\* leaves it.
LeaveLoop ==
    /\ pc = "loop"
    /\ \/ node = "done" /\ pc' = "finally" /\ UNCHANGED exc
       \/ node = "raised" /\ pc' = "except" /\ exc' = err
    /\ UNCHANGED <<convVars, preVars, image_input, providerArg, model,
                   image_path, temp_file_path, exitCode, hfCalls, fs, created>>

\* except Exception as e
Except ==
    /\ pc = "except"
    /\ exc' = HandledAs(exc)
    /\ pc' = "finally"
    /\ UNCHANGED <<convVars, preVars, image_input, providerArg, model,
                   image_path, temp_file_path, exitCode, hfCalls, fs, created>>

\* finally: if temp_file_path: cleanup_temp_file(temp_file_path)
Finally ==
    /\ pc = "finally"
    /\ fs' = IF temp_file_path # ""
             THEN cleanup_temp_file(fs, temp_file_path)
             ELSE fs
    /\ exitCode' = ExitCodeOf(exc)
    /\ pc' = "exit"
    /\ UNCHANGED <<convVars, preVars, image_input, providerArg, model,
                   image_path, temp_file_path, exc, hfCalls, created>>

RunNext ==
    \/ HandleInput
    \/ Download
    \/ SelectModel
    \/ Dispatch
    \/ HuggingFace
    \/ LeaveLoop
    \/ Except
    \/ Finally
    \/ Start
    \/ Assistant(NominalResponse, 0)
    \/ \E r \in FinalResponses : Assistant(r, 0)
    \/ AssistantFail
    \/ ToolsStart
    \/ \E i \in 1..2 : ExtractRead(i)
    \/ \E i \in 1..2 : ExtractInvoke(i)
    \/ ToolsJoin
    \/ Display

RunSpec == RunInit /\ [][RunNext]_vars

----------------------------------------------------------------------------
(* cleanup_temp_file on any path argument *)

\* No conversation and no run: the state in which single functions are
\* looked at.
ConvIdle ==
    /\ provider = "unset"
    /\ input_file = ""
    /\ messages = <<>>
    /\ node = "idle"
    /\ err = "none"
    /\ step = 0
    /\ inflight = <<>>
    /\ output = NoOutput
    /\ thinkCount = 0
    /\ actCount = 0
    /\ driverLog = <<>>
    /\ lastInput = <<>>
    /\ deviations = 0

FunctionIdle ==
    /\ pc = "function"
    /\ image_input = ""
    /\ providerArg = ""
    /\ model = NoModel
    /\ image_path = ""
    /\ temp_file_path = ""
    /\ exc = "none"
    /\ exitCode = NotExited
    /\ hfCalls = 0
    /\ created = {}

\* The files of the machine, inside and outside the temporary directory.
AllFiles ==
    {RealPath(Parts(f)) :
        f \in {"/tmp/user.png", "/tmp/a.png", "/tmp/sub/b.png",
               "/tmp/ocr_image_0.png", "/etc/passwd", "/home/u/img.png",
               "/home/u/tmp/a.png", "/var/data/scan.png", "notes.txt"}}

\* The arguments cleanup_temp_file is called with.
CleanupArgs ==
    {"", "img.png", "nofile.png", "tmp/a.png", "/tmp/user.png", "/tmp/a.png",
     "/tmp/sub/b.png", "/tmp/ocr_image_0.png", "/etc/passwd", "/home/u/img.png",
     "/home/u/tmp/a.png", "/var/data/scan.png", "/tmp/../etc/passwd",
     "/tmp/../home/u/img.png", "/tmp/sub/../../var/data/scan.png",
     "/tmp/sub/../a.png"}

CleanupInit ==
    /\ ConvIdle
    /\ FunctionIdle
    /\ PreIdle
    /\ fs = AllFiles

\* One call cleanup_temp_file(file_path).
CleanupCall(file_path) ==
    /\ pc = "function"
    /\ fs' = cleanup_temp_file(fs, file_path)
    /\ UNCHANGED <<convVars, preVars, pc, image_input, providerArg, model,
                   image_path, temp_file_path, exc, exitCode, hfCalls, created>>

CleanupNext == \E file_path \in CleanupArgs : CleanupCall(file_path)

CleanupSpec == CleanupInit /\ [][CleanupNext]_vars

----------------------------------------------------------------------------
(* preprocess_image *)

\* The widths of the input images go up to MaxWidth, the target widths
\* up to MaxTarget.
MaxWidth == 6
MaxTarget == 8

\* scale = target_width / img.shape[1] is a binary fraction: the quotient
\* keeps ScaleBits fractional bits, rounded down or up (a double keeps more).
ScaleBits == 16

ScaleUnit == 2 ^ ScaleBits

Ops == {"threshold", "deskew", "sharpen"}

PrePaths == {"/home/u/scan.png", "/var/data/scan.png", "/home/u/img.png"}

\* os.path.splitext(os.path.basename(img_path))[0]
Base(img_path) ==
    CASE img_path = "/home/u/scan.png"   -> "scan"
      [] img_path = "/var/data/scan.png" -> "scan"
      [] img_path = "/home/u/img.png"    -> "img"

\* os.path.join(tmpdir, f"{base}_proc_{op}.png")
OutPath(img_path, op) ==
    [dir |-> TempDir, name |-> <<Base(img_path), "_proc_", op, ".png">>]

\* The angle cv2.minAreaRect reports, in whole degrees: in [-90, 0) with the
\* older OpenCV releases, in (0, 90] from OpenCV 4.5.1 on.
RawAngles == (0 - 90)..90

\* scale = target_width / img.shape[1]
Scale(t, w, up) ==
    LET q == (t * ScaleUnit) \div w
    IN  IF up /\ (t * ScaleUnit) % w # 0 THEN q + 1 ELSE q

\* A resize that cuts the new width off instead of rounding it.
ResizedWidthTruncated(w, scale) == (w * scale) \div ScaleUnit

\* cv2.resize(img, None, fx=scale, fy=scale): the new width is w * fx
\* rounded to the nearest integer.
ResizedWidth(w, scale) == (2 * w * scale + ScaleUnit) \div (2 * ScaleUnit)

\* if target_width is not None and img.shape[1] < target_width: ...
Upscaled(w, t, up) ==
    IF w < t THEN ResizedWidth(w, Scale(t, w, up)) ELSE w

\* if angle < -45: angle = -(90 + angle) else: angle = -angle
NormalizeAngle(angle) ==
    IF angle < 0 - 45 THEN 0 - (90 + angle) ELSE 0 - angle

\* A deskew without the test for foreground pixels.
DeskewAngleUnguarded(fg, raw) == NormalizeAngle(raw)

\* angle = 0.0; if coords.size > 0: rect = cv2.minAreaRect(coords); ...
DeskewAngle(fg, raw) == IF fg THEN NormalizeAngle(raw) ELSE 0

\* A call of preprocess_image with its arguments and the image at img_path.
PreCall(img_path, op, t, readable, w, fg) ==
    [img_path |-> img_path, op |-> op, target_width |-> t,
     readable |-> readable, width |-> w, fg |-> fg,
     state |-> "called", error |-> "none", decodes |-> 0, out_width |-> 0, raw |-> 0,
     angle |-> 0, binary |-> FALSE, wrote |-> FALSE,
     out_path |-> OutPath(img_path, op)]

\* What a finished call has written: the file and the image in it.
Written(a) ==
    [path |-> a.out_path,
     image |-> [from |-> a.img_path, width |-> a.out_width,
                angle |-> a.angle, binary |-> a.binary]]

\* A decode that is tried again when it has failed.
ImreadRetry(a) == [a EXCEPT !.decodes = IF a.readable THEN @ + 1 ELSE @ + 2]

\* img = cv2.imread(img_path): one attempt to decode the file.
Imread(a) == [a EXCEPT !.decodes = @ + 1]

\* A write that puts a second file beside the one already at out_path.
ImwriteBeside(files, a) == files \cup {Written(a)}

\* cv2.imwrite(out_path, out): an existing file at out_path is replaced.
Imwrite(files, a) ==
    {f \in files : f.path # a.out_path} \cup {Written(a)}

\* One call of preprocess_image, from cv2.imread to the return.
PreprocessImage(c) ==
    /\ pc = "function"
    /\ c \in 1..Len(pre)
    /\ pre[c].state = "called"
    /\ LET a == Imread(pre[c])
       IN  IF ~a.readable
           THEN \* raise ValueError(f"Could not read image at {img_path}")
                /\ pre' = [pre EXCEPT ![c] = [a EXCEPT !.state = "raised",
                                                       !.error = "ValueError"]]
                /\ UNCHANGED pngs
           ELSE \E up \in BOOLEAN, raw \in RawAngles, written \in BOOLEAN :
                LET w == Upscaled(a.width, a.target_width, up)
                    b == [a EXCEPT !.out_width = w]
                IN  IF a.op = "threshold"
                    THEN LET r == [b EXCEPT !.state = "returned", !.binary = TRUE,
                                            !.wrote = written]
                         IN  /\ pre' = [pre EXCEPT ![c] = r]
                             /\ pngs' = IF written THEN Imwrite(pngs, r) ELSE pngs
                    ELSE IF a.op = "deskew"
                    THEN LET r == [b EXCEPT !.state = "returned",
                                            !.raw = IF a.fg THEN raw ELSE 0,
                                            !.angle = DeskewAngle(a.fg, raw),
                                            !.wrote = written]
                         IN  /\ pre' = [pre EXCEPT ![c] = r]
                             /\ pngs' = IF written THEN Imwrite(pngs, r) ELSE pngs
                    ELSE \* out was never assigned: out.ndim raises
                         /\ pre' = [pre EXCEPT ![c] =
                                       [b EXCEPT !.state = "raised",
                                                 !.error = "UnboundLocalError"]]
                         /\ UNCHANGED pngs
    /\ UNCHANGED <<convVars, runVars>>

\* One call, with any arguments and any image.
PreInit ==
    /\ ConvIdle
    /\ FunctionIdle
    /\ fs = AllFiles
    /\ pngs = {}
    /\ \E img_path \in PrePaths, op \in Ops, t \in 0..MaxTarget,
          readable \in BOOLEAN, w \in 1..MaxWidth, fg \in BOOLEAN :
          pre = <<PreCall(img_path, op, t, readable, w, fg)>>

PreNext == \E c \in 1..1 : PreprocessImage(c)

PreSpec == PreInit /\ [][PreNext]_vars

\* Two conversations of one process, each with one call of
\* preprocess_image on its own readable image.
PairInit ==
    /\ ConvIdle
    /\ FunctionIdle
    /\ fs = AllFiles
    /\ pngs = {}
    /\ \E p1 \in PrePaths, p2 \in PrePaths,
          op1 \in {"threshold", "deskew"}, op2 \in {"threshold", "deskew"},
          w \in 1..2 :
          /\ p1 # p2
          /\ pre = <<PreCall(p1, op1, 2, TRUE, w, FALSE),
                     PreCall(p2, op2, 2, TRUE, w, FALSE)>>

PairNext == \E c \in 1..2 : PreprocessImage(c)

PairSpec == PairInit /\ [][PairNext]_vars

\* preprocess_image is run twice on the same input with the same op; the
\* target width may differ between the two runs.
RerunInit ==
    /\ ConvIdle
    /\ FunctionIdle
    /\ fs = AllFiles
    /\ pngs = {}
    /\ \E img_path \in PrePaths, op \in {"threshold", "deskew"},
          t1 \in {0, MaxTarget}, t2 \in {0, MaxTarget}, w \in 1..2 :
          pre = <<PreCall(img_path, op, t1, TRUE, w, FALSE),
                  PreCall(img_path, op, t2, TRUE, w, FALSE)>>

RerunNext == \E c \in 1..2 : PreprocessImage(c)

RerunSpec == RerunInit /\ [][RerunNext]_vars

----------------------------------------------------------------------------
(* Properties *)

IsAI(m) == m.role = "ai"
IsTool(m) == m.role = "tool"
HasCalls(m) == m.tool_calls # <<>>
NamesUnknownTool(m) == \E k \in 1..Len(m.tool_calls) : m.tool_calls[k].name \notin tools
LoopLimitExceeded == node = "raised" /\ err = "GraphRecursionError"

\* The driver's first response asked for a tool and its second did not.
ToolThenAnswer ==
    /\ Len(driverLog) >= 2
    /\ HasCalls(driverLog[1])
    /\ ~HasCalls(driverLog[2])

\* C1: when the driver's first response is a tool-call request and its
\* second response holds no tool call, the run ends after exactly 2 driver
\* invocations and exactly 1 tools-node execution, and the text echoed as
\* the result is the content of the second driver response.
C1_ToolThenAnswerEnds ==
    ToolThenAnswer =>
        /\ thinkCount = 2
        /\ actCount = 1
        /\ node \in {"end", "done"}
        /\ node = "done" => output = driverLog[2].content

C1_Witness ==
    /\ ToolThenAnswer
    /\ node = "done"
    /\ output = "The image says Hello"

\* C2 (as claimed): a run that ends by the loop limit ends after exactly the
\* configured maximum number of Acting transitions, the bound that stops it
\* (RecursionLimit) counting tools-node executions.
C2_LimitCountsActing ==
    LoopLimitExceeded => actCount = RecursionLimit

\* C3 (as claimed): every tool-result message sits immediately after the
\* assistant message whose tool-call request produced it, and the driver is
\* not about to be invoked while a request of the latest assistant message
\* has no tool result in the history.
C3_ResultFollowsRequest ==
    /\ \A i \in 1..Len(messages) :
          IsTool(messages[i]) =>
             /\ i > 1
             /\ IsAI(messages[i - 1])
             /\ \E k \in 1..Len(messages[i - 1].tool_calls) :
                    messages[i - 1].tool_calls[k].id = messages[i].tool_call_id
    /\ node = "assistant" =>
          \A i \in 1..Len(messages) :
             (IsAI(messages[i]) /\ \A j \in (i + 1)..Len(messages) : ~IsAI(messages[j]))
                => \A k \in 1..Len(messages[i].tool_calls) :
                      \E j \in (i + 1)..Len(messages) :
                         /\ IsTool(messages[j])
                         /\ messages[j].tool_call_id = messages[i].tool_calls[k].id

\* C4: the message list is append-only: after any step the previous list is
\* an unchanged prefix of the new one.
C4_AppendOnly ==
    [][/\ Len(messages') >= Len(messages)
       /\ SubSeq(messages', 1, Len(messages)) = messages]_vars

C4_Witness ==
    /\ Len(messages) >= 4
    /\ \E i \in 1..Len(messages) : IsTool(messages[i])
    /\ node = "done"

\* A step in which the driver returned a response.
DriverResponded == node = "assistant" /\ Len(driverLog') = Len(driverLog) + 1

\* The graph has reached its end: nothing runs any more.
DoneIsTerminal ==
    node \in {"end", "done"} =>
        /\ node' \in {"end", "done"}
        /\ thinkCount' = thinkCount
        /\ actCount' = actCount
        /\ messages' = messages

\* C5 (as claimed): from Thinking a response with no tool call moves the
\* conversation to Done, Done is terminal, and a response with tool calls
\* moves it to Acting.
C5_CallsAlwaysActing ==
    [][/\ DriverResponded =>
             IF HasCalls(driverLog'[Len(driverLog')])
             THEN node' = "tools"
             ELSE node' = "end"
       /\ DoneIsTerminal]_vars

\* C5 (amended): from Thinking a response with no tool call moves the
\* conversation to Done, Done is terminal, and a response with tool calls
\* never moves it to Done: it moves it to Acting while the run has
\* supersteps left, and ends the run with the recursion error when the
\* response was the run's 25th superstep.
C5_CallsActingOrLimit ==
    [][/\ DriverResponded =>
             IF HasCalls(driverLog'[Len(driverLog')])
             THEN IF step' < RecursionLimit
                  THEN node' = "tools"
                  ELSE node' = "raised" /\ err' = "GraphRecursionError"
             ELSE node' = "end"
       /\ DoneIsTerminal]_vars

C5_Witness ==
    /\ node = "done"
    /\ thinkCount >= 2
    /\ actCount >= 1

C7_ExactlyOneInvocation ==
    \A i \in 1..Len(inflight) :
        (inflight[i].executed /\ inflight[i].pc = "done") =>
            inflight[i].invocations = 1

\* C7 (amended): a call of extract_text invokes the vision model at most
\* once and never retries: exactly once when the image was read and
\* encoded, not at all when reading or encoding it failed.
C7_AtMostOneInvocation ==
    \A i \in 1..Len(inflight) :
        /\ inflight[i].invocations <= 1
        /\ (inflight[i].executed /\ inflight[i].pc = "done") =>
              inflight[i].invocations = (IF inflight[i].failed = "io" THEN 0 ELSE 1)

C7_Witness ==
    \E i \in 1..Len(inflight) :
        /\ inflight[i].executed
        /\ inflight[i].pc = "done"
        /\ inflight[i].failed = "model"
        /\ inflight[i].invocations = 1

\* messages[i] is the result of an extraction that returned "".
IsEmptyResult(i) == IsTool(messages[i]) /\ messages[i].content = ""

\* C8: an empty result of extract_text does not abort the loop: it is
\* appended as a tool-result message and the loop goes back to Thinking,
\* where the driver is invoked with that result in the history.
C8_EmptyResultContinues ==
    \A i \in 1..Len(messages) :
        IsEmptyResult(i) =>
            \/ node = "assistant" /\ err = "none"
            \/ /\ Len(lastInput) > i
               /\ lastInput[i + 1] = messages[i]

C8_Witness ==
    \E i \in 1..Len(messages) :
        /\ IsEmptyResult(i)
        /\ Len(messages) > i
        /\ IsAI(messages[Len(messages)])
        /\ lastInput[i + 1] = messages[i]

\* C9 (as claimed): within one conversation at most one tool call is
\* executing at any moment, for every provider.
C9_OneCallInFlight ==
    Cardinality(InFlight) <= 1

\* C10 (as claimed): after a driver response that names a tool outside the
\* registered set the loop does not go on: the driver is not invoked again
\* and the run does not reach a normal end.
C10_UnknownToolIsFatal ==
    \A i \in 1..Len(messages) :
        (IsAI(messages[i]) /\ NamesUnknownTool(messages[i])) =>
            /\ \A j \in (i + 1)..Len(messages) : ~IsAI(messages[j])
            /\ node \notin {"assistant", "end", "done"}

\* The run of extract_text_from_image is over.
Exited == pc = "exit"

\* C11: after any complete run of extract_text_from_image, ended in success
\* or in an error exit, no temporary file the run created still exists: the
\* downloaded image is gone, and no preprocessed image has been written.
C11_NoTempFileLeft ==
    Exited => /\ created \cap fs = {}
              /\ pngs = {}

C11_Witness ==
    /\ Exited
    /\ created # {}
    /\ temp_file_path = TempFile
    /\ exitCode = 0

\* C14 (as claimed): every blocking external call the program waits in
\* (driver, vision model, download, local inference) has a timeout.
C14_EveryCallHasTimeout ==
    \A c \in PendingCalls : TimeoutOf(c) > 0

\* C15: a failed driver invocation ends the conversation: no driver or tool
\* step follows it, nothing is echoed as a result, and the run exits with
\* code 1.
C15_DriverFailureSurfaces ==
    err = "DriverError" =>
        /\ node = "raised"
        /\ inflight = <<>>
        /\ lastInput = <<SystemMessage(input_file)>> \o messages
        /\ output = NoOutput
        /\ pc \in {"loop", "except", "finally", "exit"}
        /\ Exited => exitCode = 1

C15_Witness ==
    /\ err = "DriverError"
    /\ thinkCount >= 2
    /\ Exited
    /\ exitCode = 1

\* The local image file does not exist, or the provider is not supported.
ValidationFails ==
    \/ ~is_url(image_input) /\ ~Exists(UserFiles, Parts(image_input))
    \/ Lower(providerArg) \notin DOMAIN DEFAULT_MODELS

\* C16: when validation fails (missing local file, or a provider outside
\* openai, ollama, huggingface, with or without --model) no model is
\* invoked and the run exits with a non-zero code; a run whose processing
\* completed exits with code zero.
C16_ExitCodes ==
    /\ ValidationFails =>
          /\ thinkCount = 0
          /\ hfCalls = 0
          /\ inflight = <<>>
          /\ Exited => exitCode # 0
    /\ (Exited /\ output # NoOutput) => exitCode = 0

C16_Witness ==
    /\ Exited
    /\ providerArg = "azure"
    /\ model # NoModel
    /\ is_url(image_input)
    /\ exitCode = 1

----------------------------------------------------------------------------
(* Cleanup and preprocessing properties *)

InsideTempDir(path) == TempDir \in Parents(path)

Called(c) == c \in 1..Len(pre)
Finished(c) == Called(c) /\ pre[c].state # "called"
Returned(c) == Called(c) /\ pre[c].state = "returned"
Supported(op) == op \in {"threshold", "deskew"}

\* C12: cleanup never deletes a file outside the system temporary
\* directory: every file that is not inside the temporary directory is
\* still there, whatever paths cleanup_temp_file has been called with.
C12_OnlyTempFilesDeleted ==
    \A f \in AllFiles : ~InsideTempDir(f) => f \in fs

\* C13: two conversations of one process do not touch each other's
\* preprocessed files: the file a returned call of preprocess_image has
\* written still holds the image of that call.
C13_OwnFileKept ==
    \A c \in 1..Len(pre) :
        (Returned(c) /\ pre[c].wrote) => Written(pre[c]) \in pngs

\* C17: after the upscale step an image that was narrower than the target
\* width is at least target_width wide, and an image at or above the
\* target width keeps its width.
C17_UpscaleReachesTarget ==
    \A c \in 1..Len(pre) :
        (Finished(c) /\ pre[c].readable) =>
            /\ pre[c].width < pre[c].target_width =>
                   pre[c].out_width >= pre[c].target_width
            /\ pre[c].width >= pre[c].target_width =>
                   pre[c].out_width = pre[c].width

C17_Witness ==
    \E c \in 1..Len(pre) :
        /\ Returned(c)
        /\ pre[c].width < pre[c].target_width
        /\ pre[c].target_width % pre[c].width # 0
        /\ pre[c].out_width = pre[c].target_width

\* C18: the deskew rotates by an angle in (-45, 45]: a raw angle below
\* -45 is applied as -(90 + raw), any other raw angle as -raw.
C18_AngleNormalised ==
    \A c \in 1..Len(pre) :
        (Returned(c) /\ pre[c].op = "deskew" /\ pre[c].fg) =>
            /\ pre[c].angle > 0 - 45
            /\ pre[c].angle <= 45
            /\ pre[c].raw < 0 - 45 => pre[c].angle = 0 - (90 + pre[c].raw)
            /\ pre[c].raw >= 0 - 45 => pre[c].angle = 0 - pre[c].raw

\* C19: a deskew of a readable image without a foreground pixel returns
\* without an error, and its output is the input image, upscaled at most,
\* rotated by 0 degrees.
C19_NoForegroundNoRotation ==
    \A c \in 1..Len(pre) :
        (Finished(c) /\ pre[c].op = "deskew" /\ pre[c].readable /\ ~pre[c].fg) =>
            /\ pre[c].state = "returned"
            /\ pre[c].error = "none"
            /\ pre[c].angle = 0
            /\ ~pre[c].binary
            /\ pre[c].out_width = Upscaled(pre[c].width, pre[c].target_width, FALSE)
               \/ pre[c].out_width = Upscaled(pre[c].width, pre[c].target_width, TRUE)
            /\ pre[c].wrote => Written(pre[c]) \in pngs

C19_Witness ==
    \E c \in 1..Len(pre) :
        /\ Returned(c)
        /\ pre[c].op = "deskew"
        /\ ~pre[c].fg
        /\ pre[c].wrote
        /\ pre[c].width < pre[c].target_width
        /\ Written(pre[c]) \in pngs

\* C20: a call with an operation other than "threshold" and "deskew" ends
\* with an error for the unsupported operation, and writes no file.
C20_UnsupportedOpError ==
    \A c \in 1..Len(pre) :
        (Finished(c) /\ pre[c].readable /\ ~Supported(pre[c].op)) =>
            /\ pre[c].state = "raised"
            /\ pre[c].error = "UnsupportedOperation"
            /\ pngs = {}

\* C21 (as claimed): a call of preprocess_image whose output could not be
\* written ends with an I/O error; a call that returns a path has written
\* the file at that path.
C21_WriteFailureSurfaces ==
    \A c \in 1..Len(pre) :
        /\ (Finished(c) /\ pre[c].readable /\ Supported(pre[c].op) /\ ~pre[c].wrote)
              => pre[c].state = "raised" /\ pre[c].error = "IOError"
        /\ Returned(c) => \E f \in pngs : f.path = pre[c].out_path

\* C22: a call on an image that cannot be decoded ends with the error for
\* an unreadable image after one decode attempt, before any transform has
\* run, and no file is written.
C22_UnreadableImageFails ==
    \A c \in 1..Len(pre) :
        (Finished(c) /\ ~pre[c].readable) =>
            /\ pre[c].state = "raised"
            /\ pre[c].error = "ValueError"
            /\ pre[c].decodes = 1
            /\ pre[c].out_width = 0
            /\ ~pre[c].binary
            /\ ~pre[c].wrote
            /\ pngs = {}

C22_Witness ==
    \E c \in 1..Len(pre) :
        /\ ~pre[c].readable
        /\ pre[c].state = "raised"
        /\ pre[c].error = "ValueError"
        /\ pre[c].target_width > pre[c].width

\* C23: the output path is a function of the input's base name and the op:
\* a file directly inside the temporary directory, named from the base name
\* and the op with a .png suffix; a second run with the same input and op
\* writes to the same path and replaces the file, it makes no second one.
C23_SamePathOverwritten ==
    /\ \A c \in 1..Len(pre) :
          Returned(c) =>
             /\ pre[c].out_path.dir = TempDir
             /\ pre[c].out_path.name[1] = Base(pre[c].img_path)
             /\ pre[c].out_path.name[3] = pre[c].op
             /\ pre[c].out_path.name[4] = ".png"
             /\ \A d \in 1..Len(pre) :
                   (Returned(d) /\ Base(pre[d].img_path) = Base(pre[c].img_path)
                                /\ pre[d].op = pre[c].op)
                      => pre[d].out_path = pre[c].out_path
    /\ \A f \in pngs, g \in pngs : f.path = g.path => f = g
    /\ Cardinality(pngs) <= 1

C23_Witness ==
    /\ Len(pre) = 2
    /\ Returned(1) /\ pre[1].wrote
    /\ Returned(2) /\ pre[2].wrote
    /\ pre[1].out_width # pre[2].out_width
    /\ Cardinality(pngs) = 1

----------------------------------------------------------------------------
(* Properties of the loop's bookkeeping and of the run's side effects *)

\* Every tool call of messages[i] has exactly one tool message in msgs.
AnsweredOnce(msgs, i) ==
    \A k \in 1..Len(msgs[i].tool_calls) :
        Cardinality({j \in 1..Len(msgs) :
                        /\ IsTool(msgs[j])
                        /\ msgs[j].tool_call_id = msgs[i].tool_calls[k].id}) = 1

\* C24: the tools node appends one tool message for every tool call of the
\* latest assistant message, in the order of the calls and with the id of
\* its call, and then hands over to the assistant; it ends in no other
\* way, so that outside the tools node every request in the history has
\* exactly one result.
C24_EveryRequestAnswered ==
    [][/\ (node = "tools" /\ messages' # messages) =>
             LET n == Len(messages)
                 req == messages[n].tool_calls
             IN  /\ Len(messages') = n + Len(req)
                 /\ SubSeq(messages', 1, n) = messages
                 /\ \A k \in 1..Len(req) :
                       /\ IsTool(messages'[n + k])
                       /\ messages'[n + k].tool_call_id = req[k].id
                 /\ node' = "assistant"
                 /\ err' = "none"
       /\ (node = "tools" /\ node' # "tools") => messages' # messages
       /\ node' \in {"assistant", "end", "done"} =>
             \A i \in 1..Len(messages') :
                 IsAI(messages'[i]) => AnsweredOnce(messages', i)
       /\ \A i \in 1..Len(messages'), j \in 1..Len(messages') :
             (IsTool(messages'[i]) /\ IsTool(messages'[j]) /\ i # j)
                => messages'[i].tool_call_id # messages'[j].tool_call_id]_vars

C24_Witness ==
    /\ node = "assistant"
    /\ \E i \in 1..Len(messages) :
          /\ IsAI(messages[i])
          /\ Len(messages[i].tool_calls) = 2
          /\ AnsweredOnce(messages, i)

\* C25: at every invocation the driver gets the system message (tool
\* signature and loaded image path) first and then the whole message list
\* of the state in its order; at the first invocation this is the system
\* message and the user's instruction.
C25_DriverSeesWholeHistory ==
    [][thinkCount' = thinkCount + 1 =>
          /\ Len(lastInput') = Len(messages) + 1
          /\ lastInput'[1].role = "system"
          /\ lastInput'[1].content = SysContent(input_file)
          /\ SubSeq(lastInput', 2, Len(lastInput')) = messages
          /\ thinkCount = 0 =>
                lastInput' = <<SystemMessage(input_file),
                               HumanMessage(1, Prompt)>>]_vars

C25_Witness ==
    /\ thinkCount >= 2
    /\ Len(lastInput) >= 4
    /\ lastInput[1] = SystemMessage(ImagePath)
    /\ lastInput[2] = HumanMessage(1, Prompt)
    /\ IsTool(lastInput[Len(lastInput)])

\* C26: input_file is the image path process_with_tools was called with,
\* from the first state of the conversation on, and no step of the
\* conversation changes it.
C26_InputFileConstant ==
    [][/\ node' # "idle" => input_file' = image_path'
       /\ node # "idle" => input_file' = input_file]_vars

C26_Witness ==
    /\ node = "done"
    /\ thinkCount = 2
    /\ actCount = 1
    /\ input_file = "/tmp/user.png"

\* C27: the run never deletes a file of the user: with a local path as its
\* input it has no temporary file to clean up and the files after the run
\* are the files before it, also when the input lies in the temporary
\* directory and when the run fails.
C27_LocalInputKept ==
    /\ UserFiles \subseteq fs
    /\ ~is_url(image_input) => temp_file_path = "" /\ fs = UserFiles

C27_Witness ==
    /\ Exited
    /\ image_input = "/tmp/user.png"
    /\ exitCode = 1
    /\ RealPath(Parts("/tmp/user.png")) \in fs

\* C28: a download that fails leaves no file behind, and the path a
\* download returns names a file that exists until the run cleans it up.
C28_FailedDownloadLeavesNothing ==
    /\ temp_file_path = "" => created \cap fs = {}
    /\ (temp_file_path # "" /\ ~Exited) => Exists(fs, Parts(temp_file_path))

C28_Witness ==
    /\ pc = "except"
    /\ created # {}
    /\ created \cap fs = {}
    /\ temp_file_path = ""

\* C29: with the provider huggingface, in any letter case, there is no
\* conversation (no assistant step, no tool call) and at most one local
\* generation, exactly one in a run that succeeds; with openai or ollama
\* there is no local generation and the image goes through the loop.
C29_HuggingFaceBypassesLoop ==
    [][/\ Lower(providerArg') = "huggingface" =>
             /\ node' = "idle"
             /\ thinkCount' = 0
             /\ actCount' = 0
             /\ inflight' = <<>>
             /\ hfCalls' <= 1
             /\ (pc' = "exit" /\ exitCode' = 0) => hfCalls' = 1
       /\ Lower(providerArg') # "huggingface" =>
             /\ hfCalls' = 0
             /\ pc' # "hf"
             /\ (pc' = "exit" /\ exitCode' = 0) => (node' = "done" /\ thinkCount' >= 1)
       /\ pc = "dispatch" =>
             IF Lower(providerArg) = "huggingface" THEN pc' = "hf"
             ELSE IF Lower(providerArg) \in Providers THEN pc' = "loop" /\ node' = "start"
             ELSE pc' = "except"]_vars

C29_Witness ==
    /\ Exited
    /\ providerArg = "HuggingFace"
    /\ exitCode = 0
    /\ hfCalls = 1
    /\ thinkCount = 0

\* C30: every call of extract_text invokes the vision model of the tools
\* module, qwen2.5vl, whatever provider and model the run was given.
C30_VisionModelFixed ==
    \A i \in 1..Len(inflight) :
        IF inflight[i].invocations > 0
        THEN inflight[i].vision = "qwen2.5vl"
        ELSE inflight[i].vision = "none"

C30_Witness ==
    /\ provider = "openai"
    /\ model = "custom-model"
    /\ \E i \in 1..Len(inflight) :
          inflight[i].invocations = 1 /\ inflight[i].vision = "qwen2.5vl"

====
